---------------------------- MODULE Spec2Model ----------------------------
(***************************************************************************)
(* A model of bilibili_hottest_today.py: the fetch of the hottest video    *)
(* (main, pick_source, get_top_from_ranking, get_top_from_popular,         *)
(* _fetch_json), the normalisation of one raw item (_video_from_payload)   *)
(* and the abbreviation of counters (human_number).                        *)
(*                                                                         *)
(* Three specifications share the variables:                               *)
(*   Spec           one run of main, from the command line to the exit;    *)
(*   SpecNormalize  _video_from_payload applied to one raw item;           *)
(*   SpecHuman      human_number applied to one argument.                  *)
(***************************************************************************)
EXTENDS Integers, Sequences, FiniteSets, TLC

VARIABLES
    \* ---- one run of main
    source,         \* args.source: "auto", "ranking" or "popular"
    jsonArg,        \* TRUE when --json PATH was given
    haveRequests,   \* FALSE when `import requests` failed (requests is None)
    jsonExc,        \* the exception class resp.json() raises on a non-JSON body
    pc,             \* where main stands
    calls,          \* the endpoints session.get was called with, in order
    inflight,       \* the endpoints whose response has not arrived yet
    rankingOut,     \* what get_top_from_ranking did (NotRun before it ended)
    popularOut,     \* what get_top_from_popular did (NotRun before it ended)
    rankingData,    \* the decoded JSON payload get_top_from_ranking read
    popularData,    \* the decoded JSON payload get_top_from_popular read
    picked,         \* what pick_source did (NotRun before it ended)
    stdout,         \* the lines printed to standard output
    stderr,         \* the lines printed to standard error
    jsonFile,       \* the record json.dump wrote, NoFile when none was written
    exitCode,       \* the exit status of the process, Running before the exit
    \* ---- _video_from_payload alone
    nPc, nItem, nVideo,
    \* ---- human_number alone
    hPc, hN, hOut

mainVars == <<source, jsonArg, haveRequests, jsonExc, pc, calls, inflight,
              rankingOut, popularOut, rankingData, popularData, picked,
              stdout, stderr, jsonFile, exitCode>>
normVars == <<nPc, nItem, nVideo>>
humanVars == <<hPc, hN, hOut>>
vars == <<mainVars, normVars, humanVars>>

-----------------------------------------------------------------------------
(***************************************************************************)
(* Python and JSON values.  Every value is a record tagged by its type;    *)
(* the field names differ from type to type, so two values of different    *)
(* types are simply unequal.  An int is its sign and its magnitude in      *)
(* base-1000 digits (limbs), most significant first and without leading    *)
(* zeros: Python ints are unbounded and the thresholds of human_number are *)
(* powers of 1000.  A dict is a function whose domain is the keys present. *)
(***************************************************************************)
Base == 1000

None == [t |-> "None"]
JStr(s) == [t |-> "str", s |-> s]
JInt(neg, limbs) == [t |-> "int", neg |-> neg, limbs |-> limbs]
JList(xs) == [t |-> "list", items |-> xs]
JDict(m) == [t |-> "dict", map |-> m]

EmptyDict == JDict([k \in {} |-> None])
EmptyStr == JStr("")
Zero == JInt(FALSE, <<0>>)

IsDict(v) == v.t = "dict"
IsList(v) == v.t = "list"

\* bool(v): None, "", 0, [] and {} are false.
Truthy(v) ==
    CASE v.t = "None" -> FALSE
      [] v.t = "str"  -> v.s # ""
      [] v.t = "int"  -> v.limbs # <<0>>
      [] v.t = "list" -> v.items # <<>>
      [] v.t = "dict" -> DOMAIN v.map # {}

\* a or b
Or(a, b) == IF Truthy(a) THEN a ELSE b

\* d.get(key, default), d a dict
DictGet(d, key, default) == IF key \in DOMAIN d.map THEN d.map[key] ELSE default

-----------------------------------------------------------------------------
(***************************************************************************)
(* Text that is built character by character (human_number) is a sequence  *)
(* of one-character strings: "1.5K" is <<"1", ".", "5", "K">>.             *)
(***************************************************************************)
DigitChar(d) == <<"0", "1", "2", "3", "4", "5", "6", "7", "8", "9">>[d + 1]

RECURSIVE Digits(_)
Digits(k) == IF k < 10 THEN <<DigitChar(k)>>
             ELSE Digits(k \div 10) \o <<DigitChar(k % 10)>>

\* text.rstrip(ch)
RECURSIVE rstrip(_, _)
rstrip(text, ch) ==
    IF text # <<>> /\ text[Len(text)] = ch
    THEN rstrip(SubSeq(text, 1, Len(text) - 1), ch)
    ELSE text

\* The integer a sequence of limbs stands for.
RECURSIVE LimbValue(_)
LimbValue(limbs) ==
    IF limbs = <<>> THEN 0
    ELSE LimbValue(SubSeq(limbs, 1, Len(limbs) - 1)) * Base + limbs[Len(limbs)]

-----------------------------------------------------------------------------
(***************************************************************************)
(* human_number.  num = float(n) is exact for every int below 2^53, and    *)
(* the ints the model draws stay below 1000^5.  After `shift` divisions by *)
(* 1000 the model holds num as limbs / 1000^shift: the limbs left of the   *)
(* point are its integer part, the others its fraction.  Each division     *)
(* rounds to the nearest double; that error is far below the distance of   *)
(* a fraction from the next decimal tie x.x5 unless the fraction is such a *)
(* tie itself.  A tie has only zero limbs after its first fraction limb,   *)
(* so every division but the last one is exact, and the last one is the    *)
(* division of the integer whole * 1000 + limb by 1000, whose rounding     *)
(* TieRoundsUp computes bit by bit.                                        *)
(***************************************************************************)
MantissaBits == 53

\* for unit in ("", "K", "M", "B")
Units == << <<>>, <<"K">>, <<"M">>, <<"B">> >>

\* Variant with `abs(num) <= 1000` for the condition of the loop.
AbsBelowThousand_Inclusive(limbs, shift) ==
    \/ Len(limbs) - shift <= 1
    \/ /\ Len(limbs) - shift = 2
       /\ limbs[1] = 1
       /\ \A i \in 2..Len(limbs) : limbs[i] = 0

\* abs(num) < 1000, num being limbs / 1000^shift
AbsBelowThousand(limbs, shift) == Len(limbs) - shift <= 1

\* The for loop with its else branch: how often num was divided, and the unit.
RECURSIVE UnitLoop(_, _, _)
UnitLoop(limbs, shift, i) ==
    IF i > Len(Units) THEN [shift |-> shift, unit |-> <<"T">>]
    ELSE IF AbsBelowThousand(limbs, shift) THEN [shift |-> shift, unit |-> Units[i]]
    ELSE UnitLoop(limbs, shift + 1, i + 1)

RECURSIVE BitLength(_)
BitLength(k) == IF k = 0 THEN 0 ELSE 1 + BitLength(k \div 2)

\* (r * 2^f) % 1000
RECURSIVE ShiftMod(_, _)
ShiftMod(r, f) == IF f = 0 THEN r ELSE ShiftMod((2 * r) % Base, f - 1)

\* num = (whole * 1000 + limb) / 1000.0 with limb % 100 = 50, printed with one
\* decimal: the double nearest to the quotient keeps MantissaBits bits; it lies
\* above the quotient when the bits cut off are more than half a unit, below it
\* when they are less, and is the quotient itself when nothing is cut off, in
\* which case the format rounds the exact tie to the even digit.
TieRoundsUp(whole, limb) ==
    LET cut == ShiftMod(limb, MantissaBits - BitLength(whole))
    IN  IF cut = 0 THEN ((limb \div 100) % 2) = 1 ELSE 2 * cut > Base

\* Whether the digit after the first decimal rounds the first decimal up.
RoundsUp(whole, frac) ==
    LET rem == frac[1] % 100
        tail == SubSeq(frac, 2, Len(frac))
        tailZero == \A i \in 1..Len(tail) : tail[i] = 0
    IN  IF rem # 50 THEN rem > 50
        ELSE IF ~tailZero THEN TRUE
        ELSE TieRoundsUp(whole, frac[1])

\* f"{num:.1f}", num being (-1)^neg * limbs / 1000^shift
FormatOneDecimal(neg, limbs, shift) ==
    LET whole == LimbValue(SubSeq(limbs, 1, Len(limbs) - shift))
        frac == SubSeq(limbs, Len(limbs) - shift + 1, Len(limbs))
        tenths == IF frac = <<>> THEN whole * 10
                  ELSE whole * 10 + (frac[1] \div 100)
                       + (IF RoundsUp(whole, frac) THEN 1 ELSE 0)
    IN  (IF neg THEN <<"-">> ELSE <<>>)
        \o Digits(tenths \div 10) \o <<".">> \o <<DigitChar(tenths % 10)>>

human_number(n) ==
    IF n = None THEN <<"-">>
    ELSE LET u == UnitLoop(n.limbs, 0, 1)
             formatted == rstrip(rstrip(FormatOneDecimal(n.neg, n.limbs, u.shift), "0"), ".")
         IN  formatted \o u.unit

-----------------------------------------------------------------------------
(***************************************************************************)
(* _video_from_payload.  The Video record keeps the values as they are:    *)
(* the dataclass does not convert or check them.                           *)
(***************************************************************************)
UrlPrefix == "https://www.bilibili.com/video/"

\* Variant that builds the url without looking at bvid.
VideoUrl_Unconditional(bvid) == JStr(UrlPrefix \o bvid.s)

\* url = f"https://www.bilibili.com/video/{bvid}" if bvid else ""
VideoUrl(bvid) == IF Truthy(bvid) THEN JStr(UrlPrefix \o bvid.s) ELSE EmptyStr

\* Variant with `stat.get(key) or None`, which takes a zero for a missing value.
StatGet_OrNone(stat, key) == Or(DictGet(stat, key, None), None)

\* stat.get(key): the counters, each read the same way
StatGet(stat, key) == DictGet(stat, key, None)

\* title=item.get("title", ""), author=owner.get("name", "")
TextGet(d, key) == DictGet(d, key, EmptyStr)

_video_from_payload(item) ==
    LET stat == Or(DictGet(item, "stat", None), EmptyDict)
        owner == Or(DictGet(item, "owner", None), EmptyDict)
        bvid == Or(DictGet(item, "bvid", None), EmptyStr)
    IN  [title      |-> TextGet(item, "title"),
         bvid       |-> bvid,
         aid        |-> DictGet(item, "aid", None),
         author     |-> TextGet(owner, "name"),
         author_mid |-> DictGet(owner, "mid", None),
         view       |-> StatGet(stat, "view"),
         like       |-> StatGet(stat, "like"),
         coin       |-> StatGet(stat, "coin"),
         favorite   |-> StatGet(stat, "favorite"),
         share      |-> StatGet(stat, "share"),
         danmaku    |-> StatGet(stat, "danmaku"),
         duration   |-> DictGet(item, "duration", None),
         url        |-> VideoUrl(bvid)]

-----------------------------------------------------------------------------
(***************************************************************************)
(* The network.  A call of session.get ends in a transport failure or in a *)
(* response with a status and a body; the body is JSON or it is not.       *)
(***************************************************************************)
RANKING_URL == "https://api.bilibili.com/x/web-interface/ranking/v2"
POPULAR_URL == "https://api.bilibili.com/x/web-interface/popular"

TransportFailure(exc) == [t |-> "transport", exc |-> exc]
HttpResponse(status, body) == [t |-> "http", status |-> status, body |-> body]
NotJsonBody == [t |-> "text"]
JsonBody(v) == [t |-> "json", value |-> v]

\* How a call ended.
Raised(exc) == [k |-> "Raised", exc |-> exc]
Returned(v) == [k |-> "Returned", value |-> v]
Found(video) == [k |-> "Found", video |-> video]
NotFound == [k |-> "NotFound"]
NotRun == [k |-> "NotRun"]
NoData == [t |-> "nodata"]

\* The classes requests.RequestException covers.  resp.json() raises
\* requests.exceptions.JSONDecodeError, one of them, from requests 2.27 on and
\* a plain ValueError before; the script asks for no version of requests.
IsRequestException(exc) ==
    exc \in {"ConnectionError", "Timeout", "HTTPError", "JSONDecodeError"}

\* session.get(...), resp.raise_for_status(), resp.json()
_fetch_json(resp, decodeError) ==
    IF resp.t = "transport" THEN Raised(resp.exc)
    ELSE IF resp.status >= 400 /\ resp.status < 600 THEN Raised("HTTPError")
    ELSE IF resp.body.t # "json" THEN Raised(decodeError)
    ELSE Returned(resp.body.value)

_first_dict(items) == IF items # <<>> /\ IsDict(items[1]) THEN items[1] ELSE None

\* value.get(key, default) where value is whatever the payload held: a value
\* that is no dict has no get, and the call raises AttributeError.
ChainGet(got, key, default) ==
    IF got.k = "Raised" THEN got
    ELSE IF ~IsDict(got.value) THEN Raised("AttributeError")
    ELSE Returned(DictGet(got.value, key, default))

\* What follows the lookup of the list in both get_top functions.
TopOfList(got) ==
    IF got.k = "Raised" THEN got
    ELSE IF ~IsList(got.value) THEN NotFound
    ELSE LET item == _first_dict(got.value.items)
         IN  IF item = None THEN NotFound ELSE Found(_video_from_payload(item))

\* data.get("data", {}).get("list", {}).get("list")
get_top_from_ranking(resp, decodeError) ==
    LET data == _fetch_json(resp, decodeError)
        nested == ChainGet(ChainGet(ChainGet(data, "data", EmptyDict),
                                    "list", EmptyDict), "list", None)
    IN  TopOfList(nested)

\* data.get("data", {}).get("list")
get_top_from_popular(resp, decodeError) ==
    LET data == _fetch_json(resp, decodeError)
        lst == ChainGet(ChainGet(data, "data", EmptyDict), "list", None)
    IN  TopOfList(lst)

-----------------------------------------------------------------------------
(***************************************************************************)
(* pick_source and main.                                                   *)
(***************************************************************************)
\* pick_source, lines 146-152: the endpoint fetched first.
FirstEndpoint(src) == IF src = "popular" THEN POPULAR_URL ELSE RANKING_URL

\* Variant that falls back in ranking mode too.
FallsBack_InEveryMode(src, out) ==
    \/ out.k = "NotFound"
    \/ out.k = "Raised" /\ IsRequestException(out.exc)

\* Variant that calls the popular endpoint even after ranking found a video.
FallsBack_AfterFound(src, out) ==
    /\ src # "ranking"
    /\ \/ out.k \in {"NotFound", "Found"}
       \/ out.k = "Raised" /\ IsRequestException(out.exc)

\* pick_source once get_top_from_ranking ended with `out`: TRUE when it goes
\* on to get_top_from_popular.  In ranking mode the outcome is returned or
\* raised as it is; in auto mode a Video is returned, None falls through the
\* `if v:`, a RequestException is caught and any other exception propagates.
FallsBack(src, out) ==
    /\ src # "ranking"
    /\ \/ out.k = "NotFound"
       \/ out.k = "Raised" /\ IsRequestException(out.exc)

Line(text, args) == [text |-> text, args |-> args]
NoFile == [t |-> "nofile"]

\* The summary main prints for a video.
Summary(video) ==
    << Line("Hottest video today", <<>>),
       Line("- Title:  ", <<video.title>>),
       Line("- Author: ", <<video.author>>),
       Line("- URL:    ", <<video.url>>),
       Line("- Stats: ", <<human_number(video.view), human_number(video.like),
                           human_number(video.coin), human_number(video.favorite),
                           human_number(video.share)>>) >>

\* Variant in which "no video found" is a success.
NotFoundResult_Success ==
    [stdout |-> << Line("No video found.", <<>>) >>, stderr |-> <<>>,
     file |-> NoFile, exit |-> 0]

\* main, lines 200-202: `if not video`.
NotFoundResult ==
    [stdout |-> << Line("No video found.", <<>>) >>, stderr |-> <<>>,
     file |-> NoFile, exit |-> 1]

\* main from the end of pick_source on: what it prints, writes and returns.
\* `out` is how pick_source ended, writeOk whether open and json.dump succeed.
main_finish(out, wantJson, writeOk) ==
    IF out.k = "Raised"
    THEN [stdout |-> <<>>,
          stderr |-> << Line(IF IsRequestException(out.exc) THEN "Network error: "
                             ELSE "Failed to fetch data: ", <<out.exc>>) >>,
          file |-> NoFile, exit |-> 1]
    ELSE IF out.k = "NotFound" THEN NotFoundResult
    ELSE IF ~wantJson
    THEN [stdout |-> Summary(out.video), stderr |-> <<>>, file |-> NoFile, exit |-> 0]
    ELSE IF writeOk
    THEN [stdout |-> Summary(out.video) \o << Line("Saved JSON to ", <<>>) >>,
          stderr |-> <<>>, file |-> out.video, exit |-> 0]
    ELSE [stdout |-> Summary(out.video),
          stderr |-> << Line("Failed to write JSON: ", <<"OSError">>) >>,
          file |-> NoFile, exit |-> 1]

\* The payload a call decoded, NoData when it raised before.
Decoded(resp, decodeError) ==
    LET got == _fetch_json(resp, decodeError)
    IN  IF got.k = "Returned" THEN got.value ELSE NoData

-----------------------------------------------------------------------------
(***************************************************************************)
(* What the two endpoints may answer.                                      *)
(***************************************************************************)
MaxListLen == 2

N2500 == JInt(FALSE, <<2, 500>>)
N999950 == JInt(FALSE, <<999, 950>>)

\* {"title":"A","bvid":"BV1","stat":{"view":2500},"owner":{"name":"X"}}
ScenarioItem ==
    JDict([title |-> JStr("A"), bvid |-> JStr("BV1"),
           stat |-> JDict([view |-> N2500]), owner |-> JDict([name |-> JStr("X")])])

\* {"title":null,"stat":{"view":0,"like":999950}}
SparseItem == JDict([title |-> None, stat |-> JDict([view |-> Zero, like |-> N999950])])

Elems == {None, ScenarioItem, SparseItem}
Lists == UNION {[1..k -> Elems] : k \in 0..MaxListLen}

Under(key, v) == JDict([x \in {key} |-> v])

Payloads ==
    {None, EmptyDict, Under("data", None), Under("data", EmptyDict),
     Under("data", JStr("banned")), Under("data", Under("list", None)),
     Under("data", Under("list", EmptyDict)),
     Under("data", Under("list", Under("list", None)))}
    \cup {Under("data", Under("list", Under("list", JList(l)))) : l \in Lists}
    \cup {Under("data", Under("list", JList(l))) : l \in Lists}

Responses ==
    {TransportFailure(e) : e \in {"ConnectionError", "Timeout"}}
    \cup {HttpResponse(200, JsonBody(p)) : p \in Payloads}
    \cup {HttpResponse(s, b) : s \in {200, 503}, b \in {NotJsonBody, JsonBody(EmptyDict)}}

-----------------------------------------------------------------------------
(***************************************************************************)
(* Spec: one run of main.  A step is main up to its next call of the       *)
(* network, or to its exit.                                                *)
(***************************************************************************)
config == <<source, jsonArg, haveRequests, jsonExc>>

NormIdle == nPc = "idle" /\ nItem = None /\ nVideo = None
HumanIdle == hPc = "idle" /\ hN = None /\ hOut = <<>>

Init ==
    /\ source \in {"auto", "ranking", "popular"}
    /\ jsonArg \in BOOLEAN
    /\ haveRequests \in BOOLEAN
    /\ jsonExc \in {"JSONDecodeError", "ValueError"}
    /\ pc = "start"
    /\ calls = <<>>
    /\ inflight = {}
    /\ rankingOut = NotRun
    /\ popularOut = NotRun
    /\ rankingData = NoData
    /\ popularData = NoData
    /\ picked = NotRun
    /\ stdout = <<>>
    /\ stderr = <<>>
    /\ jsonFile = NoFile
    /\ exitCode = -1
    /\ NormIdle
    /\ HumanIdle

\* main up to the first session.get: _ensure_requests, then pick_source.
MainStart ==
    /\ pc = "start"
    /\ IF ~haveRequests
       THEN /\ stderr' = Append(stderr, Line("Error: The 'requests' package is required.", <<>>))
            /\ exitCode' = 2
            /\ pc' = "exited"
            /\ UNCHANGED <<calls, inflight>>
       ELSE /\ calls' = Append(calls, FirstEndpoint(source))
            /\ inflight' = inflight \cup {FirstEndpoint(source)}
            /\ pc' = IF FirstEndpoint(source) = RANKING_URL THEN "ranking" ELSE "popular"
            /\ UNCHANGED <<stderr, exitCode>>
    /\ UNCHANGED <<config, rankingOut, popularOut, rankingData, popularData,
                   picked, stdout, jsonFile, normVars, humanVars>>

\* pick_source returns or raises `out`, and main runs to its exit.
Finish(out, writeOk) ==
    LET end == main_finish(out, jsonArg, writeOk)
    IN  /\ picked' = out
        /\ stdout' = stdout \o end.stdout
        /\ stderr' = stderr \o end.stderr
        /\ jsonFile' = end.file
        /\ exitCode' = end.exit
        /\ pc' = "exited"

\* The ranking endpoint answers: the rest of get_top_from_ranking, then
\* pick_source up to the call of the popular endpoint or main to its exit.
RankingResponds ==
    /\ pc = "ranking"
    /\ \E resp \in Responses, writeOk \in BOOLEAN :
          LET out == get_top_from_ranking(resp, jsonExc)
          IN  /\ rankingOut' = out
              /\ rankingData' = Decoded(resp, jsonExc)
              /\ IF FallsBack(source, out)
                 THEN /\ stderr' = IF out.k = "Raised"
                                   THEN Append(stderr, Line("Ranking source failed; falling back to popular.", <<out.exc>>))
                                   ELSE stderr
                      /\ calls' = Append(calls, POPULAR_URL)
                      /\ inflight' = (inflight \ {RANKING_URL}) \cup {POPULAR_URL}
                      /\ pc' = "popular"
                      /\ UNCHANGED <<picked, stdout, jsonFile, exitCode>>
                 ELSE /\ inflight' = inflight \ {RANKING_URL}
                      /\ UNCHANGED calls
                      /\ Finish(out, writeOk)
    /\ UNCHANGED <<config, popularOut, popularData, normVars, humanVars>>

\* The popular endpoint answers: the rest of get_top_from_popular, whose
\* outcome pick_source passes on, then main to its exit.
PopularResponds ==
    /\ pc = "popular"
    /\ \E resp \in Responses, writeOk \in BOOLEAN :
          LET out == get_top_from_popular(resp, jsonExc)
          IN  /\ popularOut' = out
              /\ popularData' = Decoded(resp, jsonExc)
              /\ inflight' = inflight \ {POPULAR_URL}
              /\ Finish(out, writeOk)
    /\ UNCHANGED <<config, calls, rankingOut, rankingData, normVars, humanVars>>

Next == MainStart \/ RankingResponds \/ PopularResponds

Spec == Init /\ [][Next]_vars

-----------------------------------------------------------------------------
(***************************************************************************)
(* SpecNormalize: _video_from_payload applied to one raw item.  A key of   *)
(* the item is absent, null or holds a value of the type the platform      *)
(* sends (the code trusts the types, not the presence).  The items are     *)
(* every combination of the six counters under a full item, and every      *)
(* combination of the other keys under four stat blocks.                   *)
(***************************************************************************)
Absent == [t |-> "absent"]

\* The dict of the keys of f that are not Absent.
MkDict(f) == JDict([k \in {x \in DOMAIN f : f[x] # Absent} |-> f[k]])

N7 == JInt(FALSE, <<7>>)
CounterKeys == {"view", "like", "coin", "favorite", "share", "danmaku"}
CounterVals == {Absent, None, Zero, N2500}
StatVals == {Absent, None} \cup {MkDict(f) : f \in [CounterKeys -> CounterVals]}
OwnerVals ==
    {Absent, None}
    \cup {MkDict([name |-> a, mid |-> m]) :
             a \in {Absent, None, JStr("X")}, m \in {Absent, None, N7}}

Items ==
    {MkDict([title |-> JStr("A"), bvid |-> JStr("BV1"), aid |-> Absent,
             duration |-> Absent, owner |-> JDict([name |-> JStr("X")]),
             stat |-> s]) : s \in StatVals}
    \cup {MkDict([title |-> a, bvid |-> b, aid |-> c, duration |-> d,
                  owner |-> o, stat |-> s]) :
             a \in {Absent, None, JStr("A")},
             b \in {Absent, None, EmptyStr, JStr("BV1")},
             c \in {Absent, None, N7},
             d \in {Absent, None, N2500},
             o \in OwnerVals,
             s \in {Absent, None, EmptyDict, JDict([view |-> N2500])}}

MainIdle ==
    /\ source = "auto" /\ jsonArg = FALSE /\ haveRequests = TRUE
    /\ jsonExc = "JSONDecodeError" /\ pc = "idle" /\ calls = <<>>
    /\ inflight = {} /\ rankingOut = NotRun /\ popularOut = NotRun
    /\ rankingData = NoData /\ popularData = NoData /\ picked = NotRun
    /\ stdout = <<>> /\ stderr = <<>> /\ jsonFile = NoFile /\ exitCode = -1

InitNormalize ==
    /\ nPc = "call"
    /\ nItem \in Items
    /\ nVideo = None
    /\ MainIdle
    /\ HumanIdle

VideoFromPayload ==
    /\ nPc = "call"
    /\ nVideo' = _video_from_payload(nItem)
    /\ nPc' = "returned"
    /\ UNCHANGED <<nItem, mainVars, humanVars>>

NextNormalize == VideoFromPayload

SpecNormalize == InitNormalize /\ [][NextNormalize]_vars

-----------------------------------------------------------------------------
(***************************************************************************)
(* SpecHuman: human_number applied to None or to an int of at most         *)
(* Len(Units) + 1 limbs, the shortest ints that reach every unit; all of   *)
(* them are below 2^53.  The first limb sets the width of the integer      *)
(* part, the second one is the limb the rounding reads, and of the later   *)
(* ones the rounding reads only whether they are all zero.                 *)
(***************************************************************************)
MaxLimbs == Len(Units) + 1
TopVals == {1, 2, 7, 100, 999}
LimbVals == {0, 1, 49, 50, 51, 150, 250, 500, 750, 949, 950, 999}
TailVals == {0, 1, 999}
Tails == UNION {[1..j -> TailVals] : j \in 0..(MaxLimbs - 2)}
LimbSeqs ==
    {<<a>> : a \in TopVals \cup {0}}
    \cup {<<a, b>> \o t : a \in TopVals, b \in LimbVals, t \in Tails}
HumanInputs ==
    {None} \cup {JInt(FALSE, l) : l \in LimbSeqs}
           \cup {JInt(TRUE, l) : l \in LimbSeqs \ {<<0>>}}

InitHuman ==
    /\ hPc = "call"
    /\ hN \in HumanInputs
    /\ hOut = <<>>
    /\ MainIdle
    /\ NormIdle

HumanNumber ==
    /\ hPc = "call"
    /\ hOut' = human_number(hN)
    /\ hPc' = "returned"
    /\ UNCHANGED <<hN, mainVars, normVars>>

NextHuman == HumanNumber

SpecHuman == InitHuman /\ [][NextHuman]_vars

-----------------------------------------------------------------------------
(***************************************************************************)
(* The properties of one run of main (Spec).                               *)
(***************************************************************************)
Exited == pc = "exited" /\ haveRequests

\* How often an endpoint was called.
CallsTo(url) == Cardinality({i \in 1..Len(calls) : calls[i] = url})

\* C1: in auto mode, whenever the ranking path ended in anything but a
\* video (it raised an error or found no video), the popular path was called
\* exactly once and what pick_source returned or raised is what the popular
\* path returned or raised.
AutoFallsBackOnEveryFailure ==
    (Exited /\ source = "auto" /\ rankingOut.k # "Found")
        => /\ CallsTo(POPULAR_URL) = 1
           /\ picked = popularOut

\* C2: in ranking mode and in popular mode only the mode's own endpoint is
\* ever called, at most once at any time and exactly once in a finished run,
\* and the run ends with what that one call gave.
SingleModeFetchesOnce ==
    (source \in {"ranking", "popular"})
        => LET own == IF source = "ranking" THEN RANKING_URL ELSE POPULAR_URL
               ownOut == IF source = "ranking" THEN rankingOut ELSE popularOut
           IN  /\ \A i \in 1..Len(calls) : calls[i] = own
               /\ Len(calls) <= 1
               /\ Exited => (Len(calls) = 1 /\ picked = ownOut /\ picked.k # "NotRun")

C2_Witness ==
    /\ Exited /\ source = "ranking"
    /\ rankingOut.k = "NotFound"
    /\ calls = <<RANKING_URL>>

\* The value at the end of a path of keys in a decoded payload; Absent when
\* a key of the path is missing or a value on the way is null or no mapping.
RECURSIVE AtPath(_, _)
AtPath(v, keys) ==
    IF keys = <<>> THEN v
    ELSE IF v.t # "dict" \/ keys[1] \notin DOMAIN v.map THEN Absent
    ELSE AtPath(v.map[keys[1]], Tail(keys))

NoListAt(data, keys) ==
    LET v == AtPath(data, keys)
    IN  v.t # "list" \/ v.items = <<>>

\* C3: a decoded response whose data.list.list (ranking) or data.list
\* (popular) is absent, is no list or is an empty list gives "no video found",
\* not an error.
EmptyPayloadIsNotFound ==
    /\ (rankingData # NoData /\ IsDict(rankingData)
            /\ NoListAt(rankingData, <<"data", "list", "list">>))
        => rankingOut = NotFound
    /\ (popularData # NoData /\ IsDict(popularData)
            /\ NoListAt(popularData, <<"data", "list">>))
        => popularOut = NotFound

C4_FetchDiagnostics == {"Network error: ", "Failed to fetch data: "}
LastLine(lines) == lines[Len(lines)].text

\* C4: the exit status follows the outcome: 2 exactly when requests is
\* missing, and then nothing was fetched; 1 when pick_source raised, when no
\* video was found and when the JSON file could not be written; 0 only when
\* a video was found, its summary printed and the file, if asked for,
\* written; and an exit with 1 for an error has its diagnostic as the last
\* line of standard error.
ExitStatusFollowsOutcome ==
    (pc = "exited")
        => /\ (~haveRequests) => (exitCode = 2 /\ calls = <<>> /\ stderr # <<>>)
           /\ (exitCode = 2) => ~haveRequests
           /\ haveRequests =>
                /\ (picked.k = "Raised") =>
                      (exitCode = 1 /\ stderr # <<>>
                          /\ LastLine(stderr) \in C4_FetchDiagnostics)
                /\ (picked.k = "NotFound") => exitCode = 1
                /\ (picked.k = "Found" /\ jsonArg /\ jsonFile = NoFile) =>
                      (exitCode = 1 /\ stderr # <<>>
                          /\ LastLine(stderr) = "Failed to write JSON: ")
                /\ (exitCode = 0) =>
                      /\ picked.k = "Found"
                      /\ SubSeq(stdout, 1, Len(Summary(picked.video))) = Summary(picked.video)
                      /\ jsonArg => jsonFile = picked.video
                /\ exitCode \in {0, 1}

C4_Witness ==
    /\ Exited /\ source = "auto"
    /\ picked = Raised("HTTPError") /\ popularOut = picked
    /\ exitCode = 1 /\ LastLine(stderr) = "Network error: "

\* C9: a run makes at most two calls, one at a time: a call is made only
\* when every earlier one has ended; in auto mode the popular endpoint is
\* called only after the ranking path ended without a video; and once a path
\* has found a video the run is over with no call after it.
FetchesAreSequential ==
    LET ended == {o \in {"ranking", "popular"} :
                     (IF o = "ranking" THEN rankingOut ELSE popularOut).k # "NotRun"}
    IN  /\ Len(calls) <= 2
        /\ Cardinality(inflight) <= 1
        /\ Len(calls) = Cardinality(ended) + Cardinality(inflight)
        /\ (source = "auto" /\ CallsTo(POPULAR_URL) > 0)
              => (calls[1] = RANKING_URL /\ rankingOut.k \notin {"NotRun", "Found"})
        /\ (rankingOut.k = "Found")
              => (calls = <<RANKING_URL>> /\ inflight = {} /\ pc = "exited")
        /\ (popularOut.k = "Found")
              => (calls[Len(calls)] = POPULAR_URL /\ CallsTo(POPULAR_URL) = 1
                     /\ inflight = {} /\ pc = "exited")

C9_Witness ==
    /\ Exited /\ source = "auto"
    /\ calls = <<RANKING_URL, POPULAR_URL>>
    /\ rankingOut = NotFound /\ popularOut.k = "Found"

-----------------------------------------------------------------------------
(***************************************************************************)
(* The properties of _video_from_payload (SpecNormalize).                  *)
(***************************************************************************)
Normalized == nPc = "returned"

\* What the raw item holds under a key: None when the key is absent or null.
RawField(d, key) == IF key \in DOMAIN d.map THEN d.map[key] ELSE None

\* What the raw item holds under a key of one of its blocks: None when the
\* block or the key is absent or null.
RawNested(item, block, key) ==
    LET b == RawField(item, block)
    IN  IF b = None THEN None ELSE RawField(b, key)

\* C5: the url of the record is empty exactly when the item's bvid is
\* absent, null or empty, and is the prefix followed by the record's bvid
\* otherwise.
UrlFollowsBvid ==
    Normalized
        => LET noBvid == RawField(nItem, "bvid") \in {None, EmptyStr}
           IN  /\ (nVideo.url = EmptyStr) <=> noBvid
               /\ (~noBvid) =>
                     /\ nVideo.bvid = nItem.map.bvid
                     /\ nVideo.url = JStr("https://www.bilibili.com/video/" \o nVideo.bvid.s)

C5_Witness ==
    /\ Normalized
    /\ nItem.map.bvid = JStr("BV1")
    /\ nVideo.url = JStr("https://www.bilibili.com/video/BV1")

\* C6: a counter that is absent or null, alone or with its whole stat
\* block, is None in the record and every other counter keeps its value, a
\* zero staying a zero; the same holds for owner.mid, aid and duration; and
\* human_number prints "-" for the missing counter and "0" for the zero one.
MissingCounterIsNotZero ==
    Normalized
        => /\ \A c \in CounterKeys :
                LET raw == RawNested(nItem, "stat", c)
                IN  /\ nVideo[c] = raw
                    /\ (raw = None) => human_number(nVideo[c]) = <<"-">>
                    /\ (raw = Zero) => human_number(nVideo[c]) = <<"0">>
           /\ nVideo.author_mid = RawNested(nItem, "owner", "mid")
           /\ nVideo.aid = RawField(nItem, "aid")
           /\ nVideo.duration = RawField(nItem, "duration")

C6_Witness ==
    /\ Normalized
    /\ "stat" \in DOMAIN nItem.map /\ IsDict(nItem.map.stat)
    /\ DOMAIN nItem.map.stat.map = {"view", "coin"}
    /\ nItem.map.stat.map.view = Zero /\ nItem.map.stat.map.coin = None
    /\ nVideo.view = Zero /\ nVideo.coin = None /\ nVideo.like = None

\* C8: title, author, bvid and url of the record are strings, and the
\* empty string when the key they come from is absent or null.
TextFieldsAreStrings ==
    Normalized
        => /\ \A f \in {"title", "author", "bvid", "url"} : nVideo[f].t = "str"
           /\ (RawField(nItem, "title") = None) => nVideo.title = EmptyStr
           /\ (RawNested(nItem, "owner", "name") = None) => nVideo.author = EmptyStr
           /\ (RawField(nItem, "bvid") = None) => nVideo.bvid = EmptyStr

-----------------------------------------------------------------------------
(***************************************************************************)
(* The properties of human_number (SpecHuman).                             *)
(***************************************************************************)
Abbreviated == hPc = "returned"

C7_Suffixes == << <<>>, <<"K">>, <<"M">>, <<"B">>, <<"T">> >>

\* How many of the thresholds 10^3, 10^6, 10^9, 10^12 the magnitude reaches:
\* it is below 1000^j exactly when it has at most j limbs.
C7_Power(limbs) == Cardinality({j \in 1..4 : Len(limbs) > j})

\* The multiples of a tenth nearest to limbs / 1000^p, in tenths: one of
\* them, or the two around an exact tie.
C7_Nearest(limbs, p) ==
    LET whole == LimbValue(SubSeq(limbs, 1, Len(limbs) - p))
        frac == SubSeq(limbs, Len(limbs) - p + 1, Len(limbs))
    IN  IF p = 0 THEN {whole * 10}
        ELSE LET below == whole * 10 + (frac[1] \div 100)
                 rest == <<frac[1] % 100>> \o SubSeq(frac, 2, Len(frac))
                 half == <<50>> \o [i \in 1..(Len(frac) - 1) |-> 0]
             IN  IF rest = half THEN {below, below + 1}
                 ELSE IF rest[1] < 50 THEN {below}
                 ELSE {below + 1}

\* A number of tenths without its trailing zero and point.
C7_Render(v) ==
    Digits(v \div 10) \o (IF v % 10 = 0 THEN <<>> ELSE <<".", DigitChar(v % 10)>>)

\* C7: human_number gives "-" for None; for an int it gives the sign, the
\* magnitude divided by the power of 1000 its size selects and rounded to the
\* nearest tenth, without a trailing ".0", and the suffix of that power; and
\* 999 gives "999", 1000 "1K", 1500 "1.5K", 1000000 "1M".
HumanNumberAbbreviates ==
    Abbreviated
        => /\ (hN = None) => hOut = <<"-">>
           /\ (hN # None) =>
                 LET p == C7_Power(hN.limbs)
                 IN  \E v \in C7_Nearest(hN.limbs, p) :
                        hOut = (IF hN.neg THEN <<"-">> ELSE <<>>)
                               \o C7_Render(v) \o C7_Suffixes[p + 1]
           /\ (hN = JInt(FALSE, <<999>>)) => hOut = <<"9", "9", "9">>
           /\ (hN = JInt(FALSE, <<1, 0>>)) => hOut = <<"1", "K">>
           /\ (hN = JInt(FALSE, <<1, 500>>)) => hOut = <<"1", ".", "5", "K">>
           /\ (hN = JInt(FALSE, <<1, 0, 0>>)) => hOut = <<"1", "M">>

C7_Witness ==
    /\ Abbreviated
    /\ hN = JInt(FALSE, <<1, 500>>)
    /\ hOut = <<"1", ".", "5", "K">>

\* The number of digits a text starts with, after its sign.
RECURSIVE LeadingDigits(_)
LeadingDigits(text) ==
    IF text = <<>> THEN 0
    ELSE IF text[1] = "-" THEN LeadingDigits(Tail(text))
    ELSE IF text[1] \in {"0", "1", "2", "3", "4", "5", "6", "7", "8", "9"}
    THEN 1 + LeadingDigits(Tail(text))
    ELSE 0

\* C10: for an int of magnitude below 10^12 the number printed before the
\* suffix is below 1000: its integer part has at most three digits.
NumericPartBelowThousand ==
    (Abbreviated /\ hN # None /\ Len(hN.limbs) <= 4)
        => LeadingDigits(hOut) <= 3

=============================================================================
